---- MODULE Spec2Model ----
(***************************************************************************)
(* Model of semtech_loraedge_referencetracker_v10.py: the Tag-Length-Value *)
(* iterator tlv_parser and the uplink handler lambda_handler with its      *)
(* outbound calls (send_https to the solver, send_downlink to the device). *)
(*                                                                         *)
(* Hex strings are sequences of one-character strings.  A Python dict is a *)
(* function whose domain is the set of keys present.  None is the empty    *)
(* sequence and a present value v is the one-element sequence <<v>>.       *)
(***************************************************************************)
EXTENDS Integers, Sequences, FiniteSets, TLC

VARIABLES
  port,      \* event: WirelessMetadata.LoRaWAN.FPort
  fcnt,      \* event: WirelessMetadata.LoRaWAN.FCnt
  pc,        \* position of lambda_handler (or of the iteration over tlv_parser)
  exc,       \* the exception that ended the invocation and the source line
             \* that raised it ("" if none)
  calls,     \* outbound calls made so far, in order
  joinOutcome,\* how the join call ended: "none", "returned" or "raised"
  retVal,    \* the dict lambda_handler builds and returns
  retAcc,    \* local retAcc: <<>> while unbound, <<dict>> once tag 09 bound it
  rBound,    \* whether local r (json.loads of a scan response) is bound
  td,        \* the primary response: <<>> until received, then <<response>>
  directives,\* ports of the non-null dnlink directives received so far
  stream,    \* the payloads v[i][1] of td's stream_records, in order
  ei,        \* index of the stream_records entry being decoded
  it,        \* position of the iterator `it` inside stream[ei] (1-based)
  yielded,   \* the triples tlv_parser has yielded so far, per entry
  recs,      \* the records the input of the iteration was encoded from
  cut,       \* how many trailing characters were dropped from that encoding
  answers    \* per decoded record, in order: <<>> if the branch called nobody,
             \* <<response>> with the solver's response to its scan call

vars == <<port, fcnt, pc, exc, calls, joinOutcome, retVal, retAcc, rBound, td,
          directives, stream, ei, it, yielded, recs, cut, answers>>

----------------------------------------------------------------------------
(* Bounds of the model *)

\* most records an input of the stand-alone TLV iteration is encoded from
MaxTlvRecords == 2

----------------------------------------------------------------------------
(* Hex characters and Python's int(s, 16) *)

Min(a, b) == IF a < b THEN a ELSE b

Null == <<>>
Some(x) == <<x>>

LowerDigits == <<"0","1","2","3","4","5","6","7","8","9","a","b","c","d","e","f">>
UpperDigits == <<"0","1","2","3","4","5","6","7","8","9","A","B","C","D","E","F">>

HexTable ==
  [c \in {LowerDigits[i] : i \in 1..16} \cup {UpperDigits[i] : i \in 1..16} |->
     CHOOSE n \in 0..15 : LowerDigits[n + 1] = c \/ UpperDigits[n + 1] = c]

\* value of one hex digit, either letter case, as int(c, 16) reads it
HexVal(c) == HexTable[c]

RECURSIVE IntHex(_)
\* int("".join(chars), 16) for a non-empty sequence of hex digits
IntHex(s) ==
  IF Len(s) = 0 THEN 0
  ELSE 16 * IntHex(SubSeq(s, 1, Len(s) - 1)) + HexVal(s[Len(s)])

\* str.upper() on a hex string
Upper(s) == [i \in 1..Len(s) |-> UpperDigits[HexVal(s[i]) + 1]]

\* str.lower() on a hex string
Lower(s) == [i \in 1..Len(s) |-> LowerDigits[HexVal(s[i]) + 1]]

----------------------------------------------------------------------------
(* tlv_parser *)

TAG_FIELD_LENGTH == 2
LENGTH_FIELD_LENGTH == 2

\* "".join(islice(it, n)) with the iterator at position pos of s: the next n
\* characters, or as many as are left
Take(s, pos, n) ==
  IF pos > Len(s) \/ n <= 0 THEN <<>> ELSE SubSeq(s, pos, Min(pos + n - 1, Len(s)))

\* a parser that reads length characters of value instead of length bytes
ValueCharsOneCharPerByte(length) == length

\* number of characters of value the parser asks for
ValueChars(length) == length * 2

\* One turn of the generator's while loop with the iterator at pos:
\*   "stop"  the tag is empty, the generator returns
\*   "raise" int('', 16) raises ValueError
\*   "yield" (tag, length, value), the iterator moved to next
tlv_parser(s, pos) ==
  LET tag    == Take(s, pos, TAG_FIELD_LENGTH)
      lenStr == Take(s, pos + Len(tag), LENGTH_FIELD_LENGTH)
      length == IntHex(lenStr)
      vpos   == pos + Len(tag) + Len(lenStr)
      value  == Take(s, vpos, ValueChars(length))
  IN  IF tag = <<>>
        THEN [kind |-> "stop", tag |-> <<>>, length |-> 0, value |-> <<>>, next |-> pos]
      ELSE IF lenStr = <<>>
        THEN [kind |-> "raise", tag |-> tag, length |-> 0, value |-> <<>>,
              next |-> pos + Len(tag)]
      ELSE [kind |-> "yield", tag |-> tag, length |-> length, value |-> value,
            next |-> vpos + Len(value)]

Triple(step) == [tag |-> step.tag, length |-> step.length, value |-> step.value]

----------------------------------------------------------------------------
(* Inputs of the stand-alone iteration over tlv_parser *)

\* n characters of value
Filler(n) == [i \in 1..n |-> IF i % 2 = 1 THEN "b" ELSE "7"]

TlvTags == { <<"0","5">>, <<"0","e">> }
TlvLengthFields == { <<"0","0">>, <<"0","1">>, <<"0","2">>, <<"0","a">>, <<"0","A">> }

\* well-formed records: tag(2) + length(2) + value(2*length)
TlvCatalog ==
  { [tag |-> t, len |-> l, value |-> Filler(2 * IntHex(l))] :
      t \in TlvTags, l \in TlvLengthFields }

EncodeRecord(rec) == rec.tag \o rec.len \o rec.value

RECURSIVE EncodeAll(_)
EncodeAll(rs) ==
  IF rs = <<>> THEN <<>> ELSE EncodeRecord(Head(rs)) \o EncodeAll(Tail(rs))

SeqsUpTo(S, n) == UNION { [1..k -> S] : k \in 0..n }

InitCommon ==
  /\ exc = ""
  /\ calls = <<>>
  /\ joinOutcome = "none"
  /\ retVal = << >>
  /\ retAcc = Null
  /\ rBound = FALSE
  /\ td = <<>>
  /\ directives = <<>>
  /\ ei = 1
  /\ it = 1
  /\ yielded = <<>>
  /\ answers = <<>>

\* the caller hands tlv_parser any prefix of an encoded record sequence
InitTlv ==
  /\ InitCommon
  /\ port = 199
  /\ fcnt = 0
  /\ pc = "tlv"
  /\ \E rs \in SeqsUpTo(TlvCatalog, MaxTlvRecords) :
       \E c \in 0..Len(EncodeAll(rs)) :
         /\ recs = rs
         /\ cut = c
         /\ stream = << SubSeq(EncodeAll(rs), 1, Len(EncodeAll(rs)) - c) >>

\* a loop that builds a new iterator on every turn and so reads the first
\* record again and again
TlvNextRereads ==
  /\ pc = "tlv"
  /\ LET step == tlv_parser(stream[ei], 1)
     IN  /\ it' = 1
         /\ CASE step.kind = "yield" ->
                   /\ yielded' = << [entry |-> ei] @@ Triple(step) >>
                   /\ pc' = "tlv"
                   /\ exc' = exc
              [] step.kind = "stop" ->
                   /\ yielded' = yielded
                   /\ pc' = "tlv_done"
                   /\ exc' = exc
              [] step.kind = "raise" ->
                   /\ yielded' = yielded
                   /\ pc' = "raised"
                   /\ exc' = "ValueError:79"
  /\ UNCHANGED <<port, fcnt, calls, joinOutcome, retVal, retAcc, rBound, td,
                 directives, stream, ei, recs, cut, answers>>

\* for tlv in tlv_parser(tlv_string): one turn of the loop
TlvNext ==
  /\ pc = "tlv"
  /\ LET step == tlv_parser(stream[ei], it)
     IN  /\ it' = step.next
         /\ CASE step.kind = "yield" ->
                   /\ yielded' = Append(yielded, [entry |-> ei] @@ Triple(step))
                   /\ pc' = "tlv"
                   /\ exc' = exc
              [] step.kind = "stop" ->
                   /\ yielded' = yielded
                   /\ pc' = "tlv_done"
                   /\ exc' = exc
              [] step.kind = "raise" ->
                   /\ yielded' = yielded
                   /\ pc' = "raised"
                   /\ exc' = "ValueError:79"
  /\ UNCHANGED <<port, fcnt, calls, joinOutcome, retVal, retAcc, rBound, td,
                 directives, stream, ei, recs, cut, answers>>

SpecTlv == InitTlv /\ [][TlvNext]_vars

\* most records an input of the iteration to its end is encoded from
MaxFairRecords == 2

\* the records of the catalog with values of at most two bytes
ShortCatalog == { r \in TlvCatalog : IntHex(r.len) <= 2 }

\* any prefix of an encoded sequence of short records
InitTlvShort ==
  /\ InitCommon
  /\ port = 199
  /\ fcnt = 0
  /\ pc = "tlv"
  /\ \E rs \in SeqsUpTo(ShortCatalog, MaxFairRecords) :
       \E c \in 0..Len(EncodeAll(rs)) :
         /\ recs = rs
         /\ cut = c
         /\ stream = << SubSeq(EncodeAll(rs), 1, Len(EncodeAll(rs)) - c) >>

\* the for loop asks the generator for its next triple until the generator
\* returns or raises: a turn that can be taken is taken
SpecTlvFair == InitTlvShort /\ [][TlvNext]_vars /\ WF_vars(TlvNext)

\* The claimed wire format, stated on the string alone: a concatenation of
\* records tag(2) + length(2) + value(2*length)
RECURSIVE WellFormedTlv(_)
WellFormedTlv(s) ==
  \/ s = <<>>
  \/ /\ Len(s) >= 4
     /\ Len(s) >= 4 + 2 * IntHex(SubSeq(s, 3, 4))
     /\ WellFormedTlv(SubSeq(s, 5 + 2 * IntHex(SubSeq(s, 3, 4)), Len(s)))

\* a byte as two hex digits drawn from digits (LowerDigits as bytes.hex()
\* and '%02x' write it, UpperDigits as '%02X' does)
HexByte(digits, n) == << digits[(n \div 16) + 1], digits[(n % 16) + 1] >>

\* a triple written back as tag + two-digit hex length + value
ReEncode(digits, t) == t.tag \o HexByte(digits, t.length) \o t.value

\* the triples yielded so far are the first records of the input, in order
YieldedInWireOrder ==
  /\ Len(yielded) <= Len(recs)
  /\ \A i \in 1..Len(yielded) :
       /\ yielded[i].tag = recs[i].tag
       /\ yielded[i].length = IntHex(recs[i].len)
       /\ yielded[i].value = recs[i].value

\* C8: on a well-formed input of N records tlv_parser yields exactly the N
\* triples in wire order and ends without error, and each triple written back
\* as tag + two-digit hex length + value is the record's own substring (the
\* length digits written in the letter case the record uses, which int(.., 16)
\* does not keep).
C8_RoundTrip ==
  (pc \in {"tlv", "tlv_done", "raised"} /\ cut = 0) =>
     /\ pc # "raised"
     /\ YieldedInWireOrder
     /\ pc = "tlv_done" => Len(yielded) = Len(recs)
     /\ \A i \in 1..Len(yielded) :
          /\ recs[i].len = Lower(recs[i].len) =>
               ReEncode(LowerDigits, yielded[i]) = EncodeRecord(recs[i])
          /\ recs[i].len = Upper(recs[i].len) =>
               ReEncode(UpperDigits, yielded[i]) = EncodeRecord(recs[i])

\* C8 witness: a well-formed input of two records, one of them with a
\* ten-byte value, iterated to its normal end
C8_Witness ==
  /\ pc = "tlv_done"
  /\ cut = 0
  /\ Len(recs) = 2
  /\ Len(yielded) = 2
  /\ yielded[1].length = 10
  /\ yielded[2].length = 1

\* C9 as stated: every yielded triple has a value of exactly length bytes, and
\* an input that ends inside a record ends the iteration with an error, never
\* normally.
C9_ValueHasDeclaredLength ==
  pc \in {"tlv", "tlv_done", "raised"} =>
     /\ \A i \in 1..Len(yielded) :
          Len(yielded[i].value) = 2 * yielded[i].length
     /\ pc = "tlv_done" => WellFormedTlv(stream[1])

\* C21: on every input the iteration over tlv_parser ends (the generator
\* returns or raises); the iterator never moves back, every turn that yields
\* or raises moves it forward by at least one character, and the triples
\* yielded never number more than half the input length, rounded up.
C21_TlvTerminates ==
  /\ <>(pc \in {"tlv_done", "raised"})
  /\ [][ /\ it' >= it
         /\ it' <= Len(stream[1]) + 1
         /\ (Len(yielded') > Len(yielded) \/ pc' = "raised") => it' > it ]_vars
  /\ [](2 * Len(yielded) <= Len(stream[1]) + 1)

\* C21 witness: an input cut inside its second record has been iterated to
\* its end, both triples yielded and every character consumed
C21_Witness ==
  /\ pc = "tlv_done"
  /\ cut > 0
  /\ Len(yielded) = 2
  /\ it = Len(stream[1]) + 1
  /\ Len(yielded[2].value) < 2 * yielded[2].length

----------------------------------------------------------------------------
(* Values the handler works with *)

\* a Python slice s[a:b] and s[a:] of a string
Slice(s, a, b) == IF a >= Min(b, Len(s)) THEN <<>> ELSE SubSeq(s, a + 1, Min(b, Len(s)))
SliceFrom(s, a) == Slice(s, a, Len(s))

\* d[k] = v on a dict
Put(d, k, v) == (k :> v) @@ d

\* the quotient of a Python true division n / d, kept exact
Ratio(n, d) == [num |-> n, den |-> d]

\* struct's signed 16-bit reading of an unsigned one
Signed16(n) == IF n >= 32768 THEN n - 65536 ELSE n

DEVEUI == "00-11-22-33-44-55-66-77"
EventTimestamp == "2021-01-01T00:00:00Z"
\* int(iso2ts(data['timestamp']))
ptimestamp == 1609459200

\* a downlink directive's port remapped the wrong way round
DownlinkPortSwapped(p) == IF p = 0 THEN 199 ELSE 150

\* port = 150 if downlink['port'] == 0 else 199
DownlinkPort(p) == IF p = 0 THEN 150 ELSE 199

\* a port test that also lets port 200 through
PortAcceptedOffByOne(p) == p >= 199

\* not (int(data.get('port', 0)) != 199)
PortAccepted(p) == p = 199

\* a join test that still fires on frame counter 2
NeedsJoinOffByOne(f) == f <= 2

\* data['fcnt'] < 2
NeedsJoin(f) == f < 2

SolverCall(msgtype, payload, timestamp) ==
  [api |-> "send_https", msgtype |-> msgtype, payload |-> payload,
   timestamp |-> timestamp, port |-> 0, transmitMode |-> 0, directive |-> 0]

\* send_downlink(data['id'], 0, payload, port) for a directive
DownlinkCall(d) ==
  [api |-> "send_downlink", msgtype |-> "downlink", payload |-> <<>>,
   timestamp |-> 0, port |-> DownlinkPort(d.port), transmitMode |-> 0,
   directive |-> d.port]

\* an error return that labels its dict as a reference result
ErrorResultAsReference(code, msg) ==
  [error |-> msg, statusCode |-> code, msgtype |-> "Reference", DevEUI |-> DEVEUI,
   timestamp |-> EventTimestamp]

\* the dict returned on the two error paths
ErrorResult(code, msg) ==
  [error |-> msg, statusCode |-> code, msgtype |-> "Error", DevEUI |-> DEVEUI,
   timestamp |-> EventTimestamp]

----------------------------------------------------------------------------
(* What the solver and the downlink transport may answer *)

DirectivePorts == {0, 3}

\* the 'dnlink' member of a result: key absent, null, or a directive
DnAbsent == [key |-> FALSE, val |-> Null]
DnNull == [key |-> TRUE, val |-> Null]
DnPort(p) == [key |-> TRUE, val |-> Some([port |-> p])]
Dnlinks == {DnAbsent, DnNull} \cup { DnPort(p) : p \in DirectivePorts }

\* a position solution, with or without the gdop member
Solution(gdopKey) ==
  [llh |-> <<48, 2, 35>>, accuracy |-> 20, gdopKey |-> gdopKey, gdop |-> 3,
   timestamp |-> 1609459300]

\* the 'position_solution' member of a result: key absent, null, or a solution
PsAbsent == [key |-> FALSE, val |-> Null]
PsNull == [key |-> TRUE, val |-> Null]
PsSol(gdopKey) == [key |-> TRUE, val |-> Some(Solution(gdopKey))]

\* A response of send_https:
\*   "raise"    the call raises (connection refused, timeout, ...)
\*   "notjson"  a body json.loads rejects (primary forward only)
\*   "noresult" a body without 'result'
\*   "nodev"    a body with 'result' but without result[deveui]['result']
\*   "ok"       the full structure, with its result object
Response(kind, dn, ps, st) ==
  [kind |-> kind, dnlink |-> dn, ps |-> ps, stream |-> st]

FailedResponse(kind) == Response(kind, DnAbsent, PsAbsent, <<>>)

ScanResponses ==
  { FailedResponse(k) : k \in {"raise", "noresult", "nodev"} } \cup
  { Response("ok", DnAbsent, PsAbsent, <<>>),
    Response("ok", DnAbsent, PsNull, <<>>),
    Response("ok", DnNull, PsSol(TRUE), <<>>),
    Response("ok", DnPort(0), PsSol(FALSE), <<>>),
    Response("ok", DnPort(3), PsNull, <<>>),
    Response("ok", DnPort(3), PsSol(TRUE), <<>>) }

\* the directives received once resp has come in
Received(ds, resp) ==
  IF resp.kind = "ok" /\ resp.dnlink.key /\ resp.dnlink.val # Null
    THEN Append(ds, resp.dnlink.val[1].port)
    ELSE ds

PrimaryResponses(streams) ==
  { FailedResponse(k) : k \in {"raise", "notjson", "noresult", "nodev"} } \cup
  { Response("ok", dn, PsAbsent, st) : dn \in Dnlinks, st \in streams }

----------------------------------------------------------------------------
(* The stream records a primary response may carry *)

\* a GNSS scan, tag 05
RecGnss05 == <<"0","5","0","2","b","7","b","7">>
\* a GNSS scan, tag 06
RecGnss06 == <<"0","6","0","1","c","1">>
\* a GNSS scan, tag 07
RecGnss07 == <<"0","7","0","1","d","2">>
\* a Wi-Fi scan, tag 08
RecWifi08 == <<"0","8","0","2","a","1","a","2">>
\* a Wi-Fi scan, tag 0E: one byte, a zero timestamp, one byte of scan
RecWifi0E == <<"0","e","0","6","0","0","0","0","0","0","0","0","0","0","e","1">>
\* a Wi-Fi scan, tag 0E: one byte, the timestamp 1609459201, one byte of scan
RecWifi0ETimed == <<"0","E","0","6","0","0","5","f","e","e","6","6","0","1","e","1">>
\* accelerometer, tag 09: 9 bytes
RecAccel == <<"0","9","0","9","0","1","0","0","1","0","f","f","f","0","0","3","e","8","0","9","c","4">>
\* battery charge, tag 0A: 2400
RecCharge == <<"0","a","0","4","0","0","0","0","0","9","6","0">>
\* battery voltage, tag 0B: 3500 mV
RecVoltage == <<"0","b","0","2","0","d","a","c">>
\* sensors, tag 0D, length 1
RecSensorsBasic == <<"0","d","0","1","1","3">>
\* sensors, tag 0D, length 7
RecSensorsFull == <<"0","d","0","7","1","3","0","9","c","4","0","9","6","0","0","d","a","c">>
\* sensors, tag 0D, a length that is neither 1 nor 7
RecSensorsOdd == <<"0","d","0","2","1","2","3","4">>
\* a tag this decoder does not know
RecUnknown == <<"f","f","0","1","0","0">>
\* a tag between two known ones, with an empty value
RecUnknown0C == <<"0","c","0","0">>
\* a stream that ends inside a tag
CutMidTag == <<"0">>
\* a stream that ends after a tag
CutAfterTag == <<"0","5">>
\* a stream that ends inside a length
CutMidLength == <<"0","5","0">>
\* a stream that ends inside a value
CutMidValue == <<"0","5","0","2","b","7">>

WholeRecords ==
  { RecGnss05, RecGnss06, RecGnss07, RecWifi08, RecWifi0E, RecAccel, RecCharge,
    RecVoltage, RecSensorsBasic, RecSensorsFull, RecSensorsOdd, RecUnknown,
    RecUnknown0C, RecWifi0ETimed }

CutRecords == { CutMidTag, CutAfterTag, CutMidLength, CutMidValue }

\* the records that are combined to the full depth
CoreRecords == { RecGnss05, RecWifi08, RecAccel, RecUnknown }

RECURSIVE SplitEntries(_, _)
\* the items q as stream_records payloads: item i + 1 opens a new entry
\* where brk[i] holds and continues the entry of item i otherwise
SplitEntries(q, brk) ==
  IF Len(q) = 0 THEN <<>>
  ELSE IF Len(q) = 1 THEN << q[1] >>
  ELSE LET rest == SplitEntries(Tail(q), [i \in 1..(Len(q) - 2) |-> brk[i + 1]])
       IN  IF brk[1] THEN << q[1] >> \o rest
           ELSE << q[1] \o Head(rest) >> \o Tail(rest)

\* every stream_records list of at most n items, each entry one or more items
StreamsOf(items, n) ==
  { <<>>, << <<>> >> } \cup
  UNION { UNION { { SplitEntries(q, brk) : brk \in [1..(k - 1) -> BOOLEAN] } :
                    q \in [1..k -> items] } : k \in 1..n }

----------------------------------------------------------------------------
(* lambda_handler *)

\* most items (whole or cut records) in the stream records of one response
MaxRecords == 2

Ports == {1, 150, 199, 200}
FCnts == {0, 1, 2}

Init ==
  /\ InitCommon
  /\ port \in Ports
  /\ fcnt \in FCnts
  /\ pc = "start"
  /\ stream = <<>>
  /\ recs = <<>>
  /\ cut = 0

\* lines 138-162: the event is unpacked and the port checked
PortCheck ==
  /\ pc = "start"
  /\ IF ~PortAccepted(port)
       THEN /\ retVal' = ErrorResult(400, "Port number 199 expected")
            /\ pc' = "returned"
       ELSE /\ retVal' = retVal
            /\ pc' = IF NeedsJoin(fcnt) THEN "join" ELSE "forward"
  /\ UNCHANGED <<port, fcnt, exc, calls, joinOutcome, retAcc, rBound, td,
                 directives, stream, ei, it, yielded, recs, cut, answers>>

\* lines 169-175: the join notification; its response is only printed
SendJoin ==
  /\ pc = "join"
  /\ calls' = Append(calls, SolverCall("joining", <<>>, 0))
  /\ \E raises \in BOOLEAN :
       IF raises
         THEN /\ joinOutcome' = "raised"
              /\ pc' = "raised"
              /\ exc' = "OSError:172"
         ELSE /\ joinOutcome' = "returned"
              /\ pc' = "forward"
              /\ exc' = exc
  /\ UNCHANGED <<port, fcnt, retVal, retAcc, rBound, td, directives, stream,
                 ei, it, yielded, recs, cut, answers>>

\* lines 178-193 and 404-410: the primary forward, json.loads of its response
\* and the test 'result' in td
ForwardPrimaryWith(responses) ==
  /\ pc = "forward"
  /\ calls' = Append(calls, SolverCall("uplink", <<>>, ptimestamp))
  /\ \E resp \in responses :
       /\ directives' = Received(directives, resp)
       /\ CASE resp.kind = "raise" ->
                 /\ pc' = "raised" /\ exc' = "OSError:189"
                 /\ td' = td /\ retVal' = retVal
            [] resp.kind = "notjson" ->
                 /\ pc' = "raised" /\ exc' = "JSONDecodeError:191"
                 /\ td' = td /\ retVal' = retVal
            [] resp.kind = "noresult" ->
                 /\ pc' = "returned" /\ exc' = exc
                 /\ td' = Some(resp)
                 /\ retVal' = ErrorResult(404, "Error, Bad CS response")
            [] OTHER ->
                 /\ pc' = "dnlink" /\ exc' = exc
                 /\ td' = Some(resp) /\ retVal' = retVal
  /\ UNCHANGED <<port, fcnt, joinOutcome, retAcc, rBound, stream, ei, it,
                 yielded, recs, cut, answers>>

\* the primary forward answered with any response the universe holds for
\* the stream records streams
ForwardPrimary(streams) == ForwardPrimaryWith(PrimaryResponses(streams))

\* a handler that goes on to the stream records without emitting the primary
\* response's downlink
PrimaryDownlinkSkipped ==
  /\ pc = "dnlink"
  /\ LET result == td[1]
     IN  IF result.kind = "nodev"
           THEN /\ pc' = "raised" /\ exc' = "KeyError:195"
                /\ calls' = calls /\ stream' = stream
           ELSE /\ pc' = "records" /\ exc' = exc
                /\ calls' = calls /\ stream' = result.stream
  /\ UNCHANGED <<port, fcnt, joinOutcome, retVal, retAcc, rBound, td,
                 directives, ei, it, yielded, recs, cut, answers>>

\* lines 194-204: the primary response's downlink, then the stream records
PrimaryDownlink ==
  /\ pc = "dnlink"
  /\ LET result == td[1]
     IN  IF result.kind = "nodev"
           THEN /\ pc' = "raised" /\ exc' = "KeyError:195"
                /\ calls' = calls /\ stream' = stream
         ELSE IF result.dnlink.key /\ result.dnlink.val # Null
           THEN /\ calls' = Append(calls, DownlinkCall(result.dnlink.val[1]))
                /\ \E raises \in BOOLEAN :
                     IF raises
                       THEN pc' = "raised" /\ exc' = "ClientError:201" /\ stream' = stream
                       ELSE pc' = "records" /\ exc' = exc /\ stream' = result.stream
         ELSE /\ pc' = "records" /\ exc' = exc
              /\ calls' = calls /\ stream' = result.stream
  /\ UNCHANGED <<port, fcnt, joinOutcome, retVal, retAcc, rBound, td,
                 directives, ei, it, yielded, recs, cut, answers>>

\* the turn of `for tlv in tlv_parser(pl)` the handler is at
cur == tlv_parser(stream[ei], it)

\* the handler is at a record whose tag, upper-cased, is in tags
AtRecord(tags) ==
  /\ pc = "records"
  /\ ei <= Len(stream)
  /\ cur.kind = "yield"
  /\ Upper(cur.tag) \in tags

\* the locals and outputs a branch may change, unchanged
Same ==
  [exc |-> "", calls |-> calls, retVal |-> retVal, retAcc |-> retAcc,
   rBound |-> rBound]

Raised(o, e) == [o EXCEPT !.exc = e]

\* a branch ends: with an exception the invocation ends, otherwise the loop
\* goes on behind the record
RecordEffects(o) ==
  /\ exc' = o.exc
  /\ pc' = IF o.exc = "" THEN "records" ELSE "raised"
  /\ calls' = o.calls
  /\ retVal' = o.retVal
  /\ retAcc' = o.retAcc
  /\ rBound' = o.rBound
  /\ it' = cur.next
  /\ yielded' = Append(yielded, [entry |-> ei] @@ Triple(cur))
  /\ UNCHANGED <<port, fcnt, joinOutcome, td, stream, ei, recs, cut>>

\* a branch that called nobody ends
RecordDone(o) ==
  /\ RecordEffects(o)
  /\ answers' = Append(answers, Null)
  /\ UNCHANGED directives

\* a branch that called the solver and got resp ends
ScanDone(o, resp) ==
  /\ RecordEffects(o)
  /\ answers' = Append(answers, Some(resp))
  /\ directives' = Received(directives, resp)

\* a loop over the entries that leaves out the entry after the current one
EntryEndSkipsEntry ==
  /\ pc = "records"
  /\ ei <= Len(stream)
  /\ cur.kind = "stop"
  /\ ei' = ei + 2
  /\ it' = 1
  /\ UNCHANGED <<port, fcnt, pc, exc, calls, joinOutcome, retVal, retAcc,
                 rBound, td, directives, stream, yielded, recs, cut, answers>>

\* lines 211-215: tlv_parser(pl) is exhausted, on to the next entry
EntryEnd ==
  /\ pc = "records"
  /\ ei <= Len(stream)
  /\ cur.kind = "stop"
  /\ ei' = ei + 1
  /\ it' = 1
  /\ UNCHANGED <<port, fcnt, pc, exc, calls, joinOutcome, retVal, retAcc,
                 rBound, td, directives, stream, yielded, recs, cut, answers>>

\* line 79 under line 215: int('', 16) raises inside the generator
ParserRaises ==
  /\ pc = "records"
  /\ ei <= Len(stream)
  /\ cur.kind = "raise"
  /\ pc' = "raised"
  /\ exc' = "ValueError:79"
  /\ it' = cur.next
  /\ UNCHANGED <<port, fcnt, calls, joinOutcome, retVal, retAcc, rBound, td,
                 directives, stream, ei, yielded, recs, cut, answers>>

\* lines 397-402: the return for valid data decode
Finish ==
  /\ pc = "records"
  /\ ei > Len(stream)
  /\ retVal' = Put(Put(Put(Put(retVal, "statusCode", 200), "msgtype", "Reference"),
                       "DevEUI", DEVEUI), "timestamp", EventTimestamp)
  /\ pc' = "returned"
  /\ UNCHANGED <<port, fcnt, exc, calls, joinOutcome, retAcc, rBound, td,
                 directives, stream, ei, it, yielded, recs, cut, answers>>

----------------------------------------------------------------------------
(* The branches of the tag dispatch *)

Tag05 == <<"0","5">>
Tag06 == <<"0","6">>
Tag07 == <<"0","7">>
Tag08 == <<"0","8">>
Tag09 == <<"0","9">>
Tag0A == <<"0","A">>
Tag0B == <<"0","B">>
Tag0D == <<"0","D">>
Tag0E == <<"0","E">>
GnssTags == {Tag05, Tag06, Tag07}
KnownTags == GnssTags \cup {Tag08, Tag09, Tag0A, Tag0B, Tag0D, Tag0E}

\* lines 247-256 and 288-297: the location a Wi-Fi solution is reported as
WifiLoc(sol, gdop) ==
  [msgtype |-> "wifi", DevEUI |-> DEVEUI, latitude |-> sol.llh[1],
   longitude |-> sol.llh[2], altitude |-> sol.llh[3], acc |-> sol.accuracy,
   gdop |-> gdop, timestamp |-> sol.timestamp]

\* lines 237-262 (tag 0E) and 278-303 (tag 08): what the handler does with the
\* response of a Wi-Fi scan; only the 08 branch prints r when there is no result
WifiResponse(o, resp, variantB) ==
  CASE resp.kind = "raise" ->
         Raised(o, IF variantB THEN "OSError:277" ELSE "OSError:236")
    [] resp.kind = "noresult" ->
         IF variantB /\ ~o.rBound THEN Raised(o, "UnboundLocalError:303") ELSE o
    [] resp.kind = "nodev" ->
         Raised([o EXCEPT !.rBound = TRUE],
                IF variantB THEN "KeyError:281" ELSE "KeyError:240")
    [] OTHER ->
         LET o1 == [o EXCEPT !.rBound = TRUE]
         IN  IF ~resp.ps.key
               THEN Raised(o1, IF variantB THEN "KeyError:281" ELSE "KeyError:240")
             ELSE IF resp.ps.val = Null THEN o1
             ELSE IF resp.ps.val[1].gdopKey
               THEN Raised(o1, IF variantB THEN "TypeError:285" ELSE "TypeError:244")
             ELSE [o1 EXCEPT !.retVal =
                     Put(Put(o.retVal, "wifi_location", WifiLoc(resp.ps.val[1], -1)),
                         "statusCode", 200)]

\* a tag-0E branch that sends the record's timestamp even when it is 0
Wifi0ESendsZeroTimestamp ==
  /\ AtRecord({Tag0E})
  /\ LET val   == cur.value
         tsStr == Slice(val, 2, 10)
     IN  IF tsStr = <<>>
           THEN RecordDone(Raised(Same, "ValueError:219"))
           ELSE LET payload == <<"0","1">> \o SliceFrom(val, 10)
                    sent    == [Same EXCEPT !.calls =
                                  Append(calls, SolverCall("wifi", payload, IntHex(tsStr)))]
                IN  \E resp \in ScanResponses :
                      ScanDone(WifiResponse(sent, resp, FALSE), resp)

\* lines 218-262: tag 0E, a Wi-Fi scan with its own timestamp
Wifi0E ==
  /\ AtRecord({Tag0E})
  /\ LET val   == cur.value
         tsStr == Slice(val, 2, 10)
     IN  IF tsStr = <<>>
           THEN RecordDone(Raised(Same, "ValueError:219"))
           ELSE LET ts        == IntHex(tsStr)
                    timestamp == IF ts = 0 THEN ptimestamp ELSE ts
                    payload   == <<"0","1">> \o SliceFrom(val, 10)
                    sent      == [Same EXCEPT !.calls =
                                    Append(calls, SolverCall("wifi", payload, timestamp))]
                IN  \E resp \in ScanResponses :
                      ScanDone(WifiResponse(sent, resp, FALSE), resp)

\* lines 263-303: tag 08, a Wi-Fi scan
Wifi08 ==
  /\ AtRecord({Tag08})
  /\ LET sent == [Same EXCEPT !.calls =
                    Append(calls, SolverCall("wifi", <<"0","1">> \o cur.value, ptimestamp))]
     IN  \E resp \in ScanResponses : ScanDone(WifiResponse(sent, resp, TRUE), resp)

\* lines 305-327: tag 09, accelerometer data; retAcc is bound first
Accel09 ==
  /\ AtRecord({Tag09})
  /\ LET val   == cur.value
         fresh == [msgtype |-> "accelerometer", DevEUI |-> DEVEUI]
         bound == [Same EXCEPT !.retAcc = Some(fresh)]
     IN  IF Len(val) % 2 = 1 THEN RecordDone(Raised(bound, "ValueError:309"))
         ELSE IF Len(val) # 18 THEN RecordDone(Raised(bound, "struct.error:309"))
         ELSE LET bits    == IntHex(Slice(val, 0, 2))
                  accVals ==
                    [motArr  |-> [i \in 1..8 |->
                                    IF (bits \div (2 ^ (i - 1))) % 2 = 1
                                      THEN "Motion" ELSE "Still"],
                     xAcc_mg |-> Ratio(Signed16(IntHex(Slice(val, 2, 6))), 1000),
                     yAcc_mg |-> Ratio(Signed16(IntHex(Slice(val, 6, 10))), 1000),
                     zAcc_mg |-> Ratio(Signed16(IntHex(Slice(val, 10, 14))), 1000),
                     Temp_C  |-> Ratio(Signed16(IntHex(Slice(val, 14, 18))), 100)]
                  acc     == Put(fresh, "accVals", accVals)
              IN  RecordDone([bound EXCEPT
                    !.retAcc = Some(acc),
                    !.retVal = Put(Put(retVal, "accelerometer", acc), "statusCode", 200)])

\* retAcc[k] = v: retVal['accelerometer'] is the same dict, so it changes too
PutAcc(o, k, v) ==
  LET acc == Put(o.retAcc[1], k, v)
  IN  [o EXCEPT !.retAcc = Some(acc), !.retVal = Put(o.retVal, "accelerometer", acc)]

\* lines 328-333: tag 0A, the modem charge
Charge0A ==
  /\ AtRecord({Tag0A})
  /\ LET val == cur.value
     IN  IF Len(val) % 2 = 1 THEN RecordDone(Raised(Same, "ValueError:329"))
         ELSE IF Len(val) # 8 THEN RecordDone(Raised(Same, "struct.error:329"))
         ELSE IF retAcc = Null THEN RecordDone(Raised(Same, "UnboundLocalError:330"))
         ELSE LET modemCharge == IntHex(val)
                  o1 == PutAcc(Same, "modemCharge", modemCharge)
                  o2 == PutAcc(o1, "battLevel", Ratio(100 * (2400 - modemCharge), 2400))
              IN  RecordDone([o2 EXCEPT !.retVal = Put(o2.retVal, "statusCode", 200)])

\* lines 334-338: tag 0B, the modem voltage
Voltage0B ==
  /\ AtRecord({Tag0B})
  /\ LET val == cur.value
     IN  IF Len(val) % 2 = 1 THEN RecordDone(Raised(Same, "ValueError:335"))
         ELSE IF Len(val) # 4 THEN RecordDone(Raised(Same, "struct.error:335"))
         ELSE IF retAcc = Null THEN RecordDone(Raised(Same, "UnboundLocalError:337"))
         ELSE LET o1 == PutAcc(Same, "modemVolt", Ratio(IntHex(val), 1000))
              IN  RecordDone([o1 EXCEPT !.retVal = Put(o1.retVal, "statusCode", 200)])

\* lines 126-134
parse_sensors_basic(data) ==
  [type |-> "sensor_basic", version |-> IntHex(Slice(data, 0, 1)),
   move_history |-> IntHex(Slice(data, 1, 2))]

\* a full sensor decode that never reports a battery level below 0
parse_sensors_full_clamped(data) ==
  [type |-> "sensor_full", version |-> IntHex(Slice(data, 0, 1)),
   move_history |-> IntHex(Slice(data, 1, 2)),
   temperature_C |-> Ratio(IntHex(Slice(data, 2, 6)), 100),
   accumulated_charge |-> IntHex(Slice(data, 6, 10)),
   battLevel |-> IF IntHex(Slice(data, 6, 10)) > 2400
                   THEN Ratio(0, 2400)
                   ELSE Ratio(100 * (2400 - IntHex(Slice(data, 6, 10))), 2400),
   voltage |-> Ratio(IntHex(Slice(data, 10, 14)), 1000)]

\* lines 108-123
parse_sensors_full(data) ==
  [type |-> "sensor_full", version |-> IntHex(Slice(data, 0, 1)),
   move_history |-> IntHex(Slice(data, 1, 2)),
   temperature_C |-> Ratio(IntHex(Slice(data, 2, 6)), 100),
   accumulated_charge |-> IntHex(Slice(data, 6, 10)),
   battLevel |-> Ratio(100 * (2400 - IntHex(Slice(data, 6, 10))), 2400),
   voltage |-> Ratio(IntHex(Slice(data, 10, 14)), 1000)]

\* lines 339-345: tag 0D, sensors; int('', 16) raises on a slice that is
\* empty, and the print reads retVal['sensors'] whatever the length was
Sensors0D ==
  /\ AtRecord({Tag0D})
  /\ LET val    == cur.value
         length == cur.length
     IN  IF length = 1 /\ Len(val) < 2 THEN RecordDone(Raised(Same, "ValueError:341"))
         ELSE IF length = 7 /\ Len(val) < 11 THEN RecordDone(Raised(Same, "ValueError:343"))
         ELSE LET rv == IF length = 1
                          THEN Put(retVal, "sensors", parse_sensors_basic(val))
                        ELSE IF length = 7
                          THEN Put(retVal, "sensors", parse_sensors_full(val))
                        ELSE retVal
              IN  IF "sensors" \notin DOMAIN rv
                    THEN RecordDone(Raised(Same, "KeyError:344"))
                    ELSE RecordDone([Same EXCEPT !.retVal = Put(rv, "statusCode", 200)])

\* lines 374-386: the location a GNSS solution is reported as
GnssLoc(sol, val) ==
  [msgtype |-> "gnss", soltype |-> val, DevEUI |-> DEVEUI, latitude |-> sol.llh[1],
   longitude |-> sol.llh[2], altitude |-> sol.llh[3], acc |-> sol.accuracy,
   gdop |-> sol.gdop, timestamp |-> sol.timestamp]

\* a suffix that does not depend on the tag
TaggedGnssKeyOneSuffix(tag) == "gnss_location_05"

\* 'gnss_location_' + tag.upper()
TaggedGnssKey(tag) ==
  CASE Upper(tag) = Tag05 -> "gnss_location_05"
    [] Upper(tag) = Tag06 -> "gnss_location_06"
    [] Upper(tag) = Tag07 -> "gnss_location_07"

\* a keying that stores every GNSS location under the plain key
GnssKeyAlwaysPlain(rv, tag) == "gnss_location"

\* lines 387-390
GnssKey(rv, tag) ==
  IF "gnss_location" \in DOMAIN rv THEN TaggedGnssKey(tag) ELSE "gnss_location"

\* lines 363-365: 'dnlink' is a key of the result and its value is not None
ScanDownlinkDue(dn) == dn.key /\ dn.val # Null

\* lines 359-396: what the handler does with the response of a GNSS scan
GnssResponse(o, resp, dlRaises, tag, val) ==
  CASE resp.kind = "raise" -> Raised(o, "OSError:358")
    [] resp.kind = "noresult" -> o
    [] resp.kind = "nodev" -> Raised([o EXCEPT !.rBound = TRUE], "KeyError:363")
    [] OTHER ->
         LET o1  == [o EXCEPT !.rBound = TRUE]
             due == ScanDownlinkDue(resp.dnlink)
             o2  == IF due
                      THEN [o1 EXCEPT !.calls = Append(@, DownlinkCall(resp.dnlink.val[1]))]
                      ELSE o1
         IN  IF due /\ dlRaises THEN Raised(o2, "ClientError:369")
             ELSE IF ~resp.ps.key THEN Raised(o2, "KeyError:371")
             ELSE IF resp.ps.val = Null THEN o2
             ELSE IF ~resp.ps.val[1].gdopKey THEN Raised(o2, "KeyError:382")
             ELSE [o2 EXCEPT !.retVal =
                     Put(Put(o.retVal, GnssKey(o.retVal, tag), GnssLoc(resp.ps.val[1], val)),
                         "statusCode", 200)]

\* lines 346-396: tags 05, 06 and 07, a GNSS scan the solver answers with
\* one of responses
GnssScan(responses) ==
  /\ AtRecord(GnssTags)
  /\ LET sent == [Same EXCEPT !.calls =
                    Append(calls, SolverCall("gnss", cur.value, ptimestamp))]
     IN  \E resp \in responses, dlRaises \in BOOLEAN :
           ScanDone(GnssResponse(sent, resp, dlRaises, cur.tag, cur.value), resp)

\* lines 346-396: tags 05, 06 and 07, a GNSS scan
Gnss == GnssScan(ScanResponses)

\* a dispatch whose last branch reports a record it does not know as data
UnknownTagSetsStatus ==
  /\ pc = "records"
  /\ ei <= Len(stream)
  /\ cur.kind = "yield"
  /\ Upper(cur.tag) \notin KnownTags
  /\ RecordDone([Same EXCEPT !.retVal = Put(retVal, "statusCode", 200)])

\* no branch of the dispatch matches the tag
UnknownTag ==
  /\ pc = "records"
  /\ ei <= Len(stream)
  /\ cur.kind = "yield"
  /\ Upper(cur.tag) \notin KnownTags
  /\ RecordDone(Same)

\* every stream of core records, and the shorter streams of all records
MainStreams ==
  StreamsOf(CoreRecords, MaxRecords) \cup
  StreamsOf(WholeRecords \cup CutRecords, MaxRecords - 1)

Next ==
  \/ PortCheck
  \/ SendJoin
  \/ ForwardPrimary(MainStreams)
  \/ PrimaryDownlink
  \/ EntryEnd
  \/ ParserRaises
  \/ Finish
  \/ Wifi0E
  \/ Wifi08
  \/ Accel09
  \/ Charge0A
  \/ Voltage0B
  \/ Sensors0D
  \/ Gnss
  \/ UnknownTag

Spec == Init /\ [][Next]_vars

----------------------------------------------------------------------------
(* Uplinks whose stream records are GNSS scans only *)

\* most GNSS records in the stream records of one response
MaxGnssRecords == 2

GnssRecords == { RecGnss05, RecGnss06, RecGnss07 }

GnssStreams == StreamsOf(GnssRecords, MaxGnssRecords)

\* a port-199 uplink, with and without the join notification
InitScans ==
  /\ InitCommon
  /\ port = 199
  /\ fcnt \in {1, 2}
  /\ pc = "start"
  /\ stream = <<>>
  /\ recs = <<>>
  /\ cut = 0

NextGnss ==
  \/ PortCheck
  \/ SendJoin
  \/ ForwardPrimary(GnssStreams)
  \/ PrimaryDownlink
  \/ EntryEnd
  \/ Finish
  \/ Gnss

SpecGnss == InitScans /\ [][NextGnss]_vars

----------------------------------------------------------------------------
(* Uplinks with several GNSS scans that the solver solves or not *)

\* most GNSS records in the one stream_records entry of a response
MaxKeyedRecords == 4

\* a second GNSS scan with tag 05, with another value
RecGnss05b == <<"0","5","0","1","e","5">>

KeyedRecords == { RecGnss05, RecGnss05b, RecGnss06, RecGnss07 }

\* the items q in one stream_records entry
OneEntry(q) == SplitEntries(q, [i \in 1..(Len(q) - 1) |-> FALSE])

KeyedStreams == { OneEntry(q) : q \in SeqsUpTo(KeyedRecords, MaxKeyedRecords) }

\* the solver has no position, or has one with every member
KeyingResponses ==
  { Response("ok", DnAbsent, PsNull, <<>>),
    Response("ok", DnNull, PsSol(TRUE), <<>>) }

\* a port-199 uplink with a frame counter past the join notifications
InitKeyed ==
  /\ InitCommon
  /\ port = 199
  /\ fcnt = 2
  /\ pc = "start"
  /\ stream = <<>>
  /\ recs = <<>>
  /\ cut = 0

\* a primary response without a downlink directive and with one entry of GNSS
\* records, or without a result
KeyedPrimaryResponses ==
  { FailedResponse("noresult") } \cup
  { Response("ok", DnAbsent, PsAbsent, st) : st \in KeyedStreams }

NextKeyed ==
  \/ PortCheck
  \/ ForwardPrimaryWith(KeyedPrimaryResponses)
  \/ PrimaryDownlink
  \/ EntryEnd
  \/ Finish
  \/ GnssScan(KeyingResponses)

SpecKeyed == InitKeyed /\ [][NextKeyed]_vars

----------------------------------------------------------------------------
(* Uplinks whose stream records report the battery *)

\* most records in the stream records of one response
MaxBatteryRecords == 2

\* battery charge, tag 0A: 0
RecChargeZero == <<"0","a","0","4","0","0","0","0","0","0","0","0">>
\* battery charge, tag 0A: 65536, above the 2400 of a full battery and above
\* what 16 bits hold
RecChargeOver == <<"0","A","0","4","0","0","0","1","0","0","0","0">>
\* sensors, tag 0D, length 7: accumulated charge 0
RecSensorsFullZero == <<"0","d","0","7","1","3","0","9","c","4","0","0","0","0","0","d","a","c">>
\* sensors, tag 0D, length 7: accumulated charge 2600
RecSensorsFullOver == <<"0","D","0","7","1","3","0","9","c","4","0","a","2","8","0","d","a","c">>

BatteryRecords ==
  { RecAccel, RecCharge, RecChargeZero, RecChargeOver, RecSensorsFull,
    RecSensorsFullZero, RecSensorsFullOver }

BatteryStreams == StreamsOf(BatteryRecords, MaxBatteryRecords)

NextBattery ==
  \/ PortCheck
  \/ SendJoin
  \/ ForwardPrimary(BatteryStreams)
  \/ PrimaryDownlink
  \/ EntryEnd
  \/ Finish
  \/ Accel09
  \/ Charge0A
  \/ Sensors0D

SpecBattery == InitScans /\ [][NextBattery]_vars

----------------------------------------------------------------------------
(* Properties of lambda_handler *)

\* positions in the calls log of the calls of one kind
CallsOf(msgtype) == { i \in 1..Len(calls) : calls[i].msgtype = msgtype }

Downlinks == CallsOf("downlink")

InHandler == pc \in {"start", "join", "forward", "dnlink", "records", "returned", "raised"}

\* C1: an uplink whose FPort is not 199 ends Rejected: statusCode 400 and
\* msgtype "Error", with no outbound call of any kind (join, primary forward,
\* scan forward, downlink) and no exception, whatever the frame counter is.
C1_WrongPortRejected ==
  (InHandler /\ port # 199) =>
     /\ calls = <<>>
     /\ pc \in {"start", "returned"}
     /\ pc = "returned" =>
          /\ retVal.statusCode = 400
          /\ retVal.msgtype = "Error"

\* C1 witness: a port-200 uplink with frame counter 0 has been rejected
C1_Witness ==
  /\ port = 200
  /\ fcnt = 0
  /\ pc = "returned"
  /\ retVal.statusCode = 400

\* C2 as stated: a port-199 uplink whose primary response lacks the result
\* structure result -> device EUI -> result ends SolverError: statusCode 404
\* and msgtype "Error", no downlink and no scan call.
C2_MalformedPrimaryGives404 ==
  (InHandler /\ td # <<>> /\ td[1].kind \in {"noresult", "nodev"}) =>
     /\ pc # "raised"
     /\ pc = "returned" =>
          /\ retVal.statusCode = 404
          /\ retVal.msgtype = "Error"
     /\ Downlinks = {}
     /\ CallsOf("wifi") \cup CallsOf("gnss") = {}

\* C3 as stated: no invocation ends in a thrown, unhandled fault.
C3_NeverRaises == pc # "raised"

\* C4: on a port-199 uplink the join notification is sent exactly when the
\* frame counter is 0 or 1, and then exactly once: once the handler is past
\* the join there is one join call for frame counters 0 and 1 and none for 2+.
C4_JoinIffFcntBelow2 ==
  (InHandler /\ port = 199) =>
     /\ Cardinality(CallsOf("joining")) <= 1
     /\ pc \notin {"start", "join"} =>
          Cardinality(CallsOf("joining")) = (IF fcnt \in {0, 1} THEN 1 ELSE 0)

\* C4 witness: a frame-counter-1 uplink has been processed to its return with
\* its one join call made before the primary forward
C4_Witness ==
  /\ port = 199
  /\ fcnt = 1
  /\ pc = "returned"
  /\ Len(calls) >= 2
  /\ calls[1].msgtype = "joining"
  /\ calls[2].msgtype = "uplink"

\* C5 as stated: a join call that fails is swallowed, the primary forward is
\* still sent.
C5_JoinFailureSwallowed ==
  (joinOutcome = "raised" /\ pc \in {"returned", "raised"}) =>
     CallsOf("uplink") # {}

\* C6 as stated: in an invocation that returns, send_downlink was called once
\* per non-null dnlink directive received, in the primary response and in the
\* responses of Wi-Fi and GNSS scans alike.
C6_OneDownlinkPerDirective ==
  pc = "returned" => Cardinality(Downlinks) = Len(directives)

\* C7: every emitted downlink has transmit mode 0 and a remapped port: 150 for
\* a directive with port 0, 199 for a directive with any other port, whether
\* the directive came in the primary response or in a scan response.
C7_DownlinkPortRemapped ==
  \A i \in Downlinks :
     /\ calls[i].transmitMode = 0
     /\ calls[i].directive = 0 => calls[i].port = 150
     /\ calls[i].directive # 0 => calls[i].port = 199
     /\ calls[i].port \in {150, 199}

\* C7 witness: a downlink for a port-0 directive of the primary response and
\* one for a port-3 directive of a scan response have both been emitted
C7_Witness ==
  /\ pc = "returned"
  /\ \E i, j \in Downlinks :
       /\ i < j
       /\ calls[i].directive = 0 /\ calls[i].port = 150
       /\ calls[j - 1].msgtype = "gnss"
       /\ calls[j].directive = 3 /\ calls[j].port = 199

\* C10 as stated: a stream that ends inside a record ends the decoding of its
\* stream_records entry only; the invocation goes on and returns status 200.
C10_TruncationContained ==
  ~(pc = "raised" /\ exc = "ValueError:79")

\* the tag of the i-th decoded record, upper-cased as the dispatch compares it
TagOf(i) == Upper(yielded[i].tag)

\* the i-th decoded record was sent to the solver and the response carries a
\* position solution
Solved(i) ==
  /\ answers[i] # Null
  /\ answers[i][1].kind = "ok"
  /\ answers[i][1].ps.key
  /\ answers[i][1].ps.val # Null

\* the position solution the solver returned for the i-th decoded record
SolutionOf(i) == answers[i][1].ps.val[1]

SolvedGnss == { i \in 1..Len(yielded) : TagOf(i) \in GnssTags /\ Solved(i) }

\* the keys of the aggregate that hold a GNSS location
GnssKeys == DOMAIN retVal \cap
  {"gnss_location", "gnss_location_05", "gnss_location_06", "gnss_location_07"}

\* C11: when the two solved GNSS records of an uplink have different tags,
\* the aggregate holds the location of each under a key of its own, the later
\* one not replacing the earlier one, whichever of the two tags comes first.
C11_DistinctTagsBothKept ==
  \A i, j \in 1..Len(yielded) :
     (/\ pc \in {"records", "returned"}
      /\ i < j
      /\ SolvedGnss = {i, j}
      /\ TagOf(i) # TagOf(j)) =>
        \E ki, kj \in GnssKeys :
           /\ ki # kj
           /\ retVal[ki] = GnssLoc(SolutionOf(i), yielded[i].value)
           /\ retVal[kj] = GnssLoc(SolutionOf(j), yielded[j].value)

\* C11 witness: an uplink with a tag-07 record followed by a tag-06 record,
\* both solved, has returned
C11_Witness ==
  /\ pc = "returned"
  /\ Len(yielded) = 2
  /\ TagOf(1) = Tag07 /\ TagOf(2) = Tag06
  /\ SolvedGnss = {1, 2}
  /\ GnssKeys = {"gnss_location", "gnss_location_06"}

ScanTags == GnssTags \cup {Tag08, Tag0E}

\* the i-th decoded record was sent to the solver and the response is not
\* usable: it has no 'result', or its position solution is null
Unusable(i) ==
  /\ answers[i] # Null
  /\ \/ answers[i][1].kind = "noresult"
     \/ /\ answers[i][1].kind = "ok"
        /\ answers[i][1].ps.key
        /\ answers[i][1].ps.val = Null

\* the branch of the i-th decoded record ended the invocation with an
\* exception of its own (not one of the downlink transport)
BranchRaised(i) ==
  /\ pc = "raised"
  /\ i = Len(yielded)
  /\ exc \notin {"ValueError:79", "ClientError:369"}

\* the keys of the aggregate that hold a location
LocationKeys == GnssKeys \cup (DOMAIN retVal \cap {"wifi_location"})

\* C12 as stated: a scan whose solver call returns no usable result raises
\* nothing and adds no location, the records after it are processed and the
\* invocation returns status 200.
C12_UnusableScanSkipped ==
  \A i \in 1..Len(yielded) :
     (TagOf(i) \in ScanTags /\ Unusable(i)) =>
        /\ ~BranchRaised(i)
        /\ (\A j \in 1..Len(yielded) : Unusable(j)) => LocationKeys = {}
        /\ pc = "returned" => retVal.statusCode = 200

\* the tags the decoder is said to know
DecodedTags == {Tag05, Tag06, Tag07, Tag08, Tag09, Tag0A, Tag0B, Tag0D, Tag0E}

\* C13: a step taken at a record whose tag is none of 05, 06, 07, 08, 09, 0A,
\* 0B, 0D, 0E raises nothing, leaves the aggregate and the locals the later
\* branches read as they are, makes no solver call and no downlink, and moves
\* on to the next record of the same entry.
C13_UnknownTagSkipped ==
  [][ (/\ pc = "records"
       /\ ei <= Len(stream)
       /\ cur.kind = "yield"
       /\ Upper(cur.tag) \notin DecodedTags) =>
         /\ pc' = "records"
         /\ exc' = exc
         /\ retVal' = retVal
         /\ retAcc' = retAcc
         /\ rBound' = rBound
         /\ calls' = calls
         /\ directives' = directives
         /\ ei' = ei
         /\ it' = cur.next ]_vars

\* C13 witness: an unknown record was skipped, the accelerometer record
\* behind it decoded, and the invocation returned with the two solver calls
\* of a frame-counter-0 uplink only
C13_Witness ==
  /\ pc = "returned"
  /\ fcnt = 0
  /\ Len(yielded) = 2
  /\ TagOf(1) \notin DecodedTags
  /\ TagOf(2) = Tag09
  /\ "accelerometer" \in DOMAIN retVal
  /\ Len(calls) = 2

\* positions in the calls log of the secondary (scan) solver calls
ScanCalls == CallsOf("wifi") \cup CallsOf("gnss")

\* the same positions in ascending order
ScanCallSeq ==
  SelectSeq([i \in 1..Len(calls) |-> i],
            LAMBDA i : calls[i].msgtype \in {"wifi", "gnss"})

\* the decoded records whose branch called the solver
Asked == { i \in 1..Len(yielded) : answers[i] # Null }

\* the same records in the order they were decoded
AskedSeq == SelectSeq([i \in 1..Len(yielded) |-> i], LAMBDA i : answers[i] # Null)

\* the primary response carries a downlink directive
PrimaryDirective ==
  /\ td # <<>>
  /\ td[1].kind = "ok"
  /\ td[1].dnlink.key
  /\ td[1].dnlink.val # Null

\* C14: the calls of one invocation are made one after the other in this
\* order: the join notification before the one primary forward, the primary
\* forward before everything else, the primary response's downlink right
\* behind the primary forward and before any record is decoded, the scan
\* calls in the wire order of the records that caused them, and a downlink a
\* scan response triggers right behind its scan call, before the next one.
C14_CallsInOrder ==
  /\ Cardinality(CallsOf("uplink")) <= 1
  /\ \A j \in CallsOf("joining") : \A u \in CallsOf("uplink") : j < u
  /\ \A i \in ScanCalls \cup Downlinks : \E u \in CallsOf("uplink") : u < i
  /\ (PrimaryDirective /\ pc \in {"records", "returned"}) =>
        \E u \in CallsOf("uplink") :
           /\ u + 1 \in Downlinks
           /\ calls[u + 1].directive = td[1].dnlink.val[1].port
  /\ (yielded # <<>> /\ PrimaryDirective) => Downlinks # {}
  /\ \A d \in Downlinks :
        \/ d - 1 \in CallsOf("uplink") /\ PrimaryDirective
        \/ /\ d - 1 \in CallsOf("gnss")
           /\ \E k \in 1..Len(AskedSeq) :
                /\ ScanCallSeq[k] = d - 1
                /\ Received(<<>>, answers[AskedSeq[k]][1]) = << calls[d].directive >>
  /\ Len(ScanCallSeq) = Len(AskedSeq)
  /\ \A k \in 1..Len(AskedSeq) :
        LET c == calls[ScanCallSeq[k]]
            r == yielded[AskedSeq[k]]
        IN  /\ Upper(r.tag) \in GnssTags => c.msgtype = "gnss" /\ c.payload = r.value
            /\ Upper(r.tag) = Tag08 =>
                  c.msgtype = "wifi" /\ c.payload = <<"0","1">> \o r.value
            /\ Upper(r.tag) = Tag0E =>
                  c.msgtype = "wifi" /\ c.payload = <<"0","1">> \o SliceFrom(r.value, 10)
            /\ Upper(r.tag) \in ScanTags

\* C14 witness: join, primary forward, the primary response's downlink, the
\* GNSS scan call of the first record with the downlink its response asked
\* for, then the Wi-Fi scan call of the second record, in this order
C14_Witness ==
  /\ pc = "returned"
  /\ Len(calls) = 6
  /\ calls[1].msgtype = "joining"
  /\ calls[2].msgtype = "uplink"
  /\ calls[3].msgtype = "downlink"
  /\ calls[4].msgtype = "gnss"
  /\ calls[5].msgtype = "downlink"
  /\ calls[6].msgtype = "wifi"
  /\ TagOf(1) = Tag05 /\ TagOf(2) = Tag08

\* C15 as stated: a scan whose response carries a position solution is
\* reported, with gdop -1 when the solution has no gdop member and with the
\* solver's gdop when it has one, for Wi-Fi and GNSS records alike.
C15_GdopDefaulted ==
  \A i \in 1..Len(yielded) :
     (TagOf(i) \in ScanTags /\ Solved(i)) =>
        /\ ~BranchRaised(i)
        /\ (i = Len(yielded) /\ pc = "records") =>
              \E k \in LocationKeys :
                 retVal[k].gdop =
                   (IF SolutionOf(i).gdopKey THEN SolutionOf(i).gdop ELSE -1)

\* the battery level the claim gives for a charge: 100 * (2400 - charge) / 2400
ClaimedBattLevel(charge) == Ratio(100 * (2400 - charge), 2400)

\* the level of a quotient against a whole number n, without dividing
Below(q, n) == q.num < n * q.den
Equals(q, n) == q.num = n * q.den

\* C16: when the branch of a tag-0A record or of a length-7 tag-0D record has
\* just run, the charge it reports is the big-endian value of the record (4
\* bytes for 0A, bytes 3..4 of the sensor packet for 0D) and the battery level
\* is 100 * (2400 - charge) / 2400 unclamped: 0 for 2400, 100 for 0, below 0
\* for a charge above 2400.
C16_BattLevelUnclamped ==
  (pc = "records" /\ yielded # <<>>) =>
     LET r == yielded[Len(yielded)]
     IN  /\ Upper(r.tag) = Tag0A =>
               LET acc == retVal.accelerometer
               IN  /\ acc.modemCharge = IntHex(r.value)
                   /\ acc.battLevel = ClaimedBattLevel(acc.modemCharge)
                   /\ acc.modemCharge = 2400 => Equals(acc.battLevel, 0)
                   /\ acc.modemCharge = 0 => Equals(acc.battLevel, 100)
                   /\ acc.modemCharge > 2400 => Below(acc.battLevel, 0)
         /\ (Upper(r.tag) = Tag0D /\ r.length = 7) =>
               LET sen == retVal.sensors
               IN  /\ sen.accumulated_charge = IntHex(Slice(r.value, 6, 10))
                   /\ sen.battLevel = ClaimedBattLevel(sen.accumulated_charge)
                   /\ sen.accumulated_charge = 2400 => Equals(sen.battLevel, 0)
                   /\ sen.accumulated_charge = 0 => Equals(sen.battLevel, 100)
                   /\ sen.accumulated_charge > 2400 => Below(sen.battLevel, 0)

\* C16 witness: an uplink with an accelerometer record and a charge record
\* of 65536 has returned with a battery level below 0
C16_Witness ==
  /\ pc = "returned"
  /\ Len(yielded) = 2
  /\ TagOf(1) = Tag09 /\ TagOf(2) = Tag0A
  /\ "battLevel" \in DOMAIN retVal.accelerometer
  /\ retVal.accelerometer.modemCharge = 65536
  /\ Below(retVal.accelerometer.battLevel, 0)

\* C17 as stated: a well-formed BatteryCharge (0A, 4 bytes) or BatteryVoltage
\* (0B, 2 bytes) record is processed without fault, whether or not an
\* accelerometer record (09) was processed before it.
C17_ChargeVoltageStandAlone ==
  \A i \in 1..Len(yielded) :
     (\/ TagOf(i) = Tag0A /\ yielded[i].length = 4 /\ Len(yielded[i].value) = 8
      \/ TagOf(i) = Tag0B /\ yielded[i].length = 2 /\ Len(yielded[i].value) = 4) =>
        ~BranchRaised(i)

RECURSIVE TriplesOf(_, _)
\* list(tlv_parser(s)) from position pos on, as far as it gets
TriplesOf(s, pos) ==
  LET step == tlv_parser(s, pos)
  IN  IF step.kind = "yield" THEN << Triple(step) >> \o TriplesOf(s, step.next)
      ELSE <<>>

RECURSIVE ScanRecordsIn(_)
\* the number of records with a scan tag in the entries of stream records st
ScanRecordsIn(st) ==
  IF st = <<>> THEN 0
  ELSE LET ts == TriplesOf(Head(st), 1)
       IN  Cardinality({ k \in 1..Len(ts) : Upper(ts[k].tag) \in ScanTags })
             + ScanRecordsIn(Tail(st))

\* positions in the calls log of the calls made with send_https
SolverCalls == { i \in 1..Len(calls) : calls[i].api = "send_https" }

\* C18: on a port-199 uplink with a well-formed primary response, every
\* decoded record with tag 05, 06, 07, 08 or 0E has caused exactly one
\* secondary solver call (msgtype "gnss" for 05/06/07, "wifi" for 08/0E) and
\* no other record has caused one; when the invocation returns, the solver
\* was called (1 if frame counter < 2 else 0) + 1 + (scan records in the
\* stream records) times.
C18_OneCallPerScanRecord ==
  (InHandler /\ port = 199 /\ td # <<>> /\ td[1].kind = "ok"
     /\ pc \in {"records", "returned"}) =>
     /\ \A i \in 1..Len(yielded) : (i \in Asked) <=> (TagOf(i) \in ScanTags)
     /\ Len(ScanCallSeq) = Len(AskedSeq)
     /\ \A k \in 1..Len(AskedSeq) :
          calls[ScanCallSeq[k]].msgtype =
            (IF TagOf(AskedSeq[k]) \in GnssTags THEN "gnss" ELSE "wifi")
     /\ pc = "returned" =>
          /\ Cardinality(ScanCalls) = ScanRecordsIn(td[1].stream)
          /\ Cardinality(SolverCalls) =
               (IF fcnt < 2 THEN 1 ELSE 0) + 1 + ScanRecordsIn(td[1].stream)

\* C18 witness: a frame-counter-0 uplink with a GNSS record in one entry and
\* a Wi-Fi record in the next has returned after four solver calls
C18_Witness ==
  /\ pc = "returned"
  /\ fcnt = 0
  /\ Len(stream) = 2
  /\ Len(yielded) = 2
  /\ TagOf(1) = Tag05 /\ TagOf(2) = Tag08
  /\ Cardinality(SolverCalls) = 4
  /\ calls[Len(calls)].msgtype = "wifi"

RECURSIVE BigEndian(_)
\* the unsigned value of bytes written as hex, most significant byte first
BigEndian(s) ==
  IF Len(s) < 2 THEN 0
  ELSE 256 * BigEndian(SubSeq(s, 1, Len(s) - 2))
         + 16 * HexVal(s[Len(s) - 1]) + HexVal(s[Len(s)])

\* C19: the solver call of a tag-0E record carries the big-endian value of
\* bytes 1..4 of the record value as timestamp, or the uplink's timestamp in
\* epoch seconds when that value is 0, and as payload 01 followed by the
\* value from byte 5 on; the solver call of a tag-08 record carries the
\* uplink's timestamp and as payload 01 followed by the whole value.
C19_WifiRequest ==
  \A k \in 1..Min(Len(AskedSeq), Len(ScanCallSeq)) :
     LET c  == calls[ScanCallSeq[k]]
         r  == yielded[AskedSeq[k]]
         ts == BigEndian(SubSeq(r.value, 3, 10))
     IN  /\ (Upper(r.tag) = Tag0E /\ Len(r.value) >= 10) =>
               /\ c.timestamp = (IF ts = 0 THEN ptimestamp ELSE ts)
               /\ c.payload = <<"0","1">> \o SubSeq(r.value, 11, Len(r.value))
         /\ Upper(r.tag) = Tag08 =>
               /\ c.timestamp = ptimestamp
               /\ c.payload = <<"0","1">> \o r.value

\* C19 witness: an uplink with one tag-0E record whose timestamp bytes are 0
\* has returned, the scan sent with the uplink's timestamp and payload 01e1
C19_Witness ==
  /\ pc = "returned"
  /\ Len(yielded) = 1
  /\ TagOf(1) = Tag0E
  /\ SubSeq(yielded[1].value, 3, 10) = <<"0","0","0","0","0","0","0","0">>
  /\ calls[Len(calls)].msgtype = "wifi"
  /\ calls[Len(calls)].timestamp = ptimestamp
  /\ calls[Len(calls)].payload = <<"0","1","e","1">>

\* C20 as stated: the solver call of a GNSS record carries the record value
\* unchanged as payload, and the location reported for a solved GNSS record
\* has the record's tag as soltype.
C20_GnssSoltypeIsTag ==
  \A i \in 1..Len(yielded) :
     (TagOf(i) \in GnssTags /\ i = Len(yielded) /\ pc = "records") =>
        /\ calls[Len(calls)].msgtype = "downlink"
              \/ calls[Len(calls)].payload = yielded[i].value
        /\ Solved(i) =>
              \E k \in GnssKeys :
                 /\ retVal[k] = [GnssLoc(SolutionOf(i), yielded[i].value)
                                   EXCEPT !.soltype = retVal[k].soltype]
                 /\ retVal[k].soltype \in {yielded[i].tag, TagOf(i)}

\* the keys of a result that hold decoded data
DataKeys == {"sensors", "accelerometer", "wifi_location"} \cup
  {"gnss_location", "gnss_location_05", "gnss_location_06", "gnss_location_07"}

\* C22: every returned result has statusCode 200, 400 or 404, msgtype "Error"
\* exactly when statusCode is not 200 and "Reference" exactly when it is 200,
\* the error field exactly on Error results, DevEUI and timestamp always, and
\* no data field on an Error result.
C22_ResultShape ==
  (InHandler /\ pc = "returned") =>
     /\ {"statusCode", "msgtype", "DevEUI", "timestamp"} \subseteq DOMAIN retVal
     /\ retVal.statusCode \in {200, 400, 404}
     /\ (retVal.msgtype = "Error") <=> (retVal.statusCode # 200)
     /\ (retVal.msgtype = "Reference") <=> (retVal.statusCode = 200)
     /\ ("error" \in DOMAIN retVal) <=> (retVal.msgtype = "Error")
     /\ retVal.msgtype = "Error" => DOMAIN retVal \cap DataKeys = {}

\* C22 witness: a port-199 uplink whose primary response has no result has
\* returned the 404 Error result
C22_Witness ==
  /\ pc = "returned"
  /\ port = 199
  /\ td # <<>>
  /\ td[1].kind = "noresult"
  /\ retVal.statusCode = 404
  /\ "error" \in DOMAIN retVal

\* the key the rule gives a solved record when first is the first solved
\* one: gnss_location for it, gnss_location_<TAG> for every later one
RuleKey(i, first) ==
  IF i = first THEN "gnss_location"
  ELSE CASE TagOf(i) = Tag05 -> "gnss_location_05"
         [] TagOf(i) = Tag06 -> "gnss_location_06"
         [] TagOf(i) = Tag07 -> "gnss_location_07"

\* C23: while GNSS records are decoded and at the return, the GNSS keys of the
\* aggregate are gnss_location for the first solved record and
\* gnss_location_<TAG> for every later solved one, at most 4 keys in all;
\* each key holds the location of the last solved record it was given to, so
\* a solved record is replaced exactly when a later solved record has its
\* tag and it is not the first solved one.
C23_GnssKeying ==
  pc \in {"records", "returned"} =>
     IF SolvedGnss = {} THEN GnssKeys = {}
     ELSE
       LET S     == SolvedGnss
           first == CHOOSE i \in S : \A j \in S : i <= j
           key   == [i \in S |-> RuleKey(i, first)]
           last  == [i \in S |->
                      CHOOSE j \in S :
                         /\ key[j] = key[i]
                         /\ \A m \in S : key[m] = key[i] => m <= j]
       IN  /\ GnssKeys = { key[i] : i \in S }
           /\ Cardinality(GnssKeys) <= 4
           /\ \A i \in S :
                /\ retVal[key[i]] =
                     GnssLoc(SolutionOf(last[i]), yielded[last[i]].value)
                /\ (last[i] # i) <=>
                     (i # first /\ \E j \in S : j > i /\ TagOf(j) = TagOf(i))

\* C23 witness: four solved records with tags 06, 05, 07, 05 have been
\* decoded and the invocation has returned with three GNSS keys, the second
\* tag-05 location in the place of the first
C23_Witness ==
  /\ pc = "returned"
  /\ Len(yielded) = 4
  /\ SolvedGnss = {1, 2, 3, 4}
  /\ TagOf(1) = Tag06 /\ TagOf(2) = Tag05 /\ TagOf(3) = Tag07 /\ TagOf(4) = Tag05
  /\ yielded[2].value # yielded[4].value
  /\ GnssKeys = {"gnss_location", "gnss_location_05", "gnss_location_07"}
  /\ retVal["gnss_location_05"].soltype = yielded[4].value

====
